---- MODULE Spec2Model ----
(***************************************************************************)
(* Model of python/pynq/pmods/pmod_cable.py: the class PMOD_Cable, a PMOD  *)
(* pin read through a 'straight' or 'loopback' cable.                      *)
(*                                                                         *)
(* One PMOD_Cable object is followed from before its construction.  Every  *)
(* method is a pure operator from the object and the call's inputs to the  *)
(* call's outcome (the exception raised or the value returned, the object  *)
(* afterwards, the calls made to collaborators); the actions apply them.   *)
(***************************************************************************)
EXTENDS Integers, Sequences, FiniteSets

\* ------------------------------------------------------------------ bounds
\* read_cmd returns a Python int; the data port holds raw values of RawWidth
\* bits, one bit more than the 8 pins of a PMOD.
RawWidth == 9
\* PMOD ids given to the constructor are 1..MaxPmodId.
MaxPmodId == 1
\* Pin indexes given to the constructor are -1..MaxIndexArg.
MaxIndexArg == 8

RawValues == 0..(2^RawWidth - 1)
PmodIds == 1..MaxPmodId
IndexArgs == -1..MaxIndexArg
DirectionArgs == {"in", "out", "inout"}

\* The constructor called without its fourth argument.
NoArg == "<missing>"
\* Cable tokens a caller passes: the two the code knows, and two it does not.
CableTokens == {"straight", "loopback", "Straight", "twisted"}

\* Failures the controller's read_cmd may raise.
ControllerErrors == {"OSError", "TimeoutError"}

\* ------------------------------------------------------- Python arithmetic
\* x >> n on a non-negative Python int, for n >= 0; for n < 0 Python raises
\* ValueError ("negative shift count"), which read() below lets through.
shr(x, n) == x \div (2^n)

\* x & y on non-negative Python ints, bit by bit.
RECURSIVE BitAnd(_, _)
BitAnd(x, y) ==
    IF x = 0 \/ y = 0 THEN 0
    ELSE (IF x % 2 = 1 /\ y % 2 = 1 THEN 1 ELSE 0)
         + 2 * BitAnd(x \div 2, y \div 2)

\* x ^ y on non-negative Python ints, bit by bit.
RECURSIVE BitXor(_, _)
BitXor(x, y) ==
    IF x = 0 THEN y
    ELSE IF y = 0 THEN x
    ELSE (IF x % 2 # y % 2 THEN 1 ELSE 0)
         + 2 * BitXor(x \div 2, y \div 2)

\* ---------------------------------------------------------------- the code
\* The list ['straight', 'loopback'] of both validity tests.
Cables == {"straight", "loopback"}

\* PMOD_IO.__init__: checks index and direction, binds the controller.
PMOD_IO_init(pmod_id, index, direction) ==
    IF index \notin 0..7 \/ direction \notin {"in", "out"}
    THEN [exc |-> "PMOD_IO_Error"]
    ELSE [exc |-> "ok",
          self |-> [iop |-> pmod_id, index |-> index, direction |-> direction]]

\* Variant of PMOD_Cable.__init__: the base constructor runs before the cable
\* is checked.
PMOD_Cable_init_baseFirst(pmod_id, index, direction, cable) ==
    IF cable = NoArg
    THEN [exc |-> "TypeError", calls |-> << >>]
    ELSE LET base == PMOD_IO_init(pmod_id, index, direction)
         IN  IF base.exc # "ok"
             THEN [exc |-> base.exc, calls |-> <<"PMOD_IO.__init__">>]
             ELSE IF cable \notin Cables
             THEN [exc |-> "ValueError", calls |-> <<"PMOD_IO.__init__">>]
             ELSE [exc |-> "ok", calls |-> <<"PMOD_IO.__init__">>,
                   self |-> [iop |-> base.self.iop,
                             index |-> base.self.index,
                             direction |-> base.self.direction,
                             cable |-> cable]]

\* Variant of PMOD_Cable.__init__: the cable is not checked.
PMOD_Cable_init_noCheck(pmod_id, index, direction, cable) ==
    IF cable = NoArg
    THEN [exc |-> "TypeError", calls |-> << >>]
    ELSE LET base == PMOD_IO_init(pmod_id, index, direction)
         IN  IF base.exc # "ok"
             THEN [exc |-> base.exc, calls |-> <<"PMOD_IO.__init__">>]
             ELSE [exc |-> "ok", calls |-> <<"PMOD_IO.__init__">>,
                   self |-> [iop |-> base.self.iop,
                             index |-> base.self.index,
                             direction |-> base.self.direction,
                             cable |-> cable]]

\* Variant of PMOD_Cable.__init__: the cable is checked and 'straight' stored.
PMOD_Cable_init_storesStraight(pmod_id, index, direction, cable) ==
    IF cable = NoArg
    THEN [exc |-> "TypeError", calls |-> << >>]
    ELSE IF cable \notin Cables
    THEN [exc |-> "ValueError", calls |-> << >>]
    ELSE LET base == PMOD_IO_init(pmod_id, index, direction)
         IN  IF base.exc # "ok"
             THEN [exc |-> base.exc, calls |-> <<"PMOD_IO.__init__">>]
             ELSE [exc |-> "ok", calls |-> <<"PMOD_IO.__init__">>,
                   self |-> [iop |-> base.self.iop,
                             index |-> base.self.index,
                             direction |-> base.self.direction,
                             cable |-> "straight"]]

\* PMOD_Cable.__init__(self, pmod_id, index, direction, cable).
\* The outcome: the exception raised (or "ok"), the object when one is made,
\* and the collaborator calls made.
PMOD_Cable_init(pmod_id, index, direction, cable) ==
    IF cable = NoArg
    THEN [exc |-> "TypeError", calls |-> << >>]
    ELSE IF cable \notin Cables
    THEN [exc |-> "ValueError", calls |-> << >>]
    ELSE LET base == PMOD_IO_init(pmod_id, index, direction)
         IN  IF base.exc # "ok"
             THEN [exc |-> base.exc, calls |-> <<"PMOD_IO.__init__">>]
             ELSE [exc |-> "ok", calls |-> <<"PMOD_IO.__init__">>,
                   self |-> [iop |-> base.self.iop,
                             index |-> base.self.index,
                             direction |-> base.self.direction,
                             cable |-> cable]]

\* Variant of set_cable: the cable is stored before it is checked.
set_cable_storeFirst(self, cable) ==
    IF cable \notin Cables
    THEN [exc |-> "ValueError", self |-> [self EXCEPT !.cable = cable],
          calls |-> << >>]
    ELSE [exc |-> "ok", self |-> [self EXCEPT !.cable = cable],
          calls |-> << >>]

\* Variant of set_cable: the cable is checked and not stored.
set_cable_noStore(self, cable) ==
    IF cable \notin Cables
    THEN [exc |-> "ValueError", self |-> self, calls |-> << >>]
    ELSE [exc |-> "ok", self |-> self, calls |-> << >>]

\* PMOD_Cable.set_cable(self, cable).
set_cable(self, cable) ==
    IF cable \notin Cables
    THEN [exc |-> "ValueError", self |-> self, calls |-> << >>]
    ELSE [exc |-> "ok", self |-> [self EXCEPT !.cable = cable],
          calls |-> << >>]

\* Variant of the shift amount: index <= 4 where the code has index < 4.
bit_position_offByOne(self) ==
    IF self.cable = "straight"
    THEN IF self.index <= 4 THEN self.index + 4 ELSE self.index - 4
    ELSE self.index

\* Variant of the shift amount: the upper group is not moved down.
bit_position_upperKept(self) ==
    IF self.cable = "straight"
    THEN IF self.index < 4 THEN self.index + 4 ELSE self.index
    ELSE self.index

\* The shift amount of PMOD_Cable.read: the bit of the raw value it returns.
bit_position(self) ==
    IF self.cable = "straight"
    THEN IF self.index < 4 THEN self.index + 4 ELSE self.index - 4
    ELSE self.index

\* Variant of read: a failed read_cmd is tried once more before it is raised.
read_retry(self, resp) ==
    IF ~resp.ok
    THEN [exc |-> resp.error, self |-> self,
          calls |-> <<"read_cmd", "read_cmd">>]
    ELSE IF bit_position(self) < 0
    THEN [exc |-> "ValueError", self |-> self, calls |-> <<"read_cmd">>]
    ELSE [exc |-> "ok", self |-> self, calls |-> <<"read_cmd">>,
          ret |-> BitAnd(shr(resp.value, bit_position(self)), 1)]

\* Variant of read: the mapped position is stored back into self.index.
read_storesPosition(self, resp) ==
    IF ~resp.ok
    THEN [exc |-> resp.error, self |-> self, calls |-> <<"read_cmd">>]
    ELSE IF bit_position(self) < 0
    THEN [exc |-> "ValueError", self |-> self, calls |-> <<"read_cmd">>]
    ELSE [exc |-> "ok",
          self |-> [self EXCEPT !.index = bit_position(self)],
          calls |-> <<"read_cmd">>,
          ret |-> BitAnd(shr(resp.value, bit_position(self)), 1)]

\* PMOD_Cable.read(self), given what the controller's read_cmd does when it
\* is called: resp.ok and the raw value resp.value, or the failure resp.error.
read(self, resp) ==
    IF ~resp.ok
    THEN [exc |-> resp.error, self |-> self, calls |-> <<"read_cmd">>]
    ELSE IF bit_position(self) < 0
    THEN [exc |-> "ValueError", self |-> self, calls |-> <<"read_cmd">>]
    ELSE [exc |-> "ok", self |-> self, calls |-> <<"read_cmd">>,
          ret |-> BitAnd(shr(resp.value, bit_position(self)), 1)]

\* ------------------------------------------------------------------ state
VARIABLES
    pin,       \* the PMOD_Cable object, NoPin before it is constructed
    port,      \* the raw value read_cmd returns from the data port of pin.iop
    last,      \* the last event: a call with its inputs, the object as it
               \* was when the call was made (self) and the outcome (out)
    accepted   \* the cable token of the last call that accepted one

vars == <<pin, port, last, accepted>>

NoPin == [none |-> TRUE]
NoCall == [name |-> "none"]

\* What read_cmd may do when the port holds raw: return it, or fail.
Responses(raw) ==
    {[ok |-> TRUE, value |-> raw]}
        \cup {[ok |-> FALSE, error |-> e] : e \in ControllerErrors}

Init ==
    /\ pin = NoPin
    /\ port = 0
    /\ last = NoCall
    /\ accepted = NoArg

\* PMOD_Cable(pmod_id, index, direction, cable), or PMOD_Cable(pmod_id, index,
\* direction) when cable is NoArg.
Construct(pmod_id, index, direction, cable) ==
    /\ pin = NoPin
    /\ LET r == PMOD_Cable_init(pmod_id, index, direction, cable)
       IN  /\ pin' = IF r.exc = "ok" THEN r.self ELSE pin
           /\ accepted' = IF r.exc = "ok" THEN cable ELSE accepted
           /\ last' = [name |-> "__init__", pmod_id |-> pmod_id,
                       index |-> index, direction |-> direction,
                       cable |-> cable, self |-> pin, out |-> r]
    /\ UNCHANGED port

\* pin.set_cable(cable)
SetCable(cable) ==
    /\ pin # NoPin
    /\ LET r == set_cable(pin, cable)
       IN  /\ pin' = r.self
           /\ accepted' = IF r.exc = "ok" THEN cable ELSE accepted
           /\ last' = [name |-> "set_cable", cable |-> cable, self |-> pin,
                       out |-> r]
    /\ UNCHANGED port

\* pin.read(), the controller answering resp
Read(resp) ==
    /\ pin # NoPin
    /\ LET r == read(pin, resp)
       IN  /\ pin' = r.self
           /\ last' = [name |-> "read", resp |-> resp, self |-> pin,
                       out |-> r]
    /\ UNCHANGED <<port, accepted>>

\* The level of one line of the data port of the bound controller changes.
Toggle(b) ==
    /\ pin # NoPin
    /\ port' = IF shr(port, b) % 2 = 1 THEN port - 2^b ELSE port + 2^b
    /\ last' = [name |-> "toggle", self |-> pin]
    /\ UNCHANGED <<pin, accepted>>

Next ==
    \/ \E pmod_id \in PmodIds, index \in IndexArgs,
          direction \in DirectionArgs, cable \in CableTokens \cup {NoArg} :
           Construct(pmod_id, index, direction, cable)
    \/ \E cable \in CableTokens : SetCable(cable)
    \/ \E resp \in Responses(port) : Read(resp)
    \/ \E b \in 0..(RawWidth - 1) : Toggle(b)

Spec == Init /\ [][Next]_vars

TypeOK ==
    /\ pin = NoPin \/ (pin.index \in 0..7 /\ pin.direction \in {"in", "out"})
    /\ port \in RawValues
    /\ last.name \in {"none", "__init__", "set_cable", "read", "toggle"}

\* ----------------------------------------------------------------- claims
\* The bit position the specification gives for a cable and an index.
SpecPosition(cable, index) ==
    IF cable = "straight"
    THEN (IF index < 4 THEN index + 4 ELSE index - 4)
    ELSE index

\* Bit p of the raw value raw.
SpecBit(raw, p) == (raw \div (2^p)) % 2

\* The last event is a read() in which the controller returned a raw value.
ReadReturned == last.name = "read" /\ last.resp.ok

\* C1: a read() returns bit p of the raw value the controller returned during
\* that call, a value in {0,1}, where p is index+4 (straight, index < 4),
\* index-4 (straight, index >= 4) or index (loopback); with the examples of
\* the specification (raw 0xF0 and 0b00000100).
C1_ReadReturnsMappedBit ==
    ReadReturned =>
        LET self == last.self
            raw == last.resp.value
            ret == last.out.ret
        IN  /\ last.out.exc = "ok"
            /\ raw = port
            /\ self.index \in 0..7
            /\ ret \in {0, 1}
            /\ ret = SpecBit(raw, SpecPosition(self.cable, self.index))
            /\ (raw = 240 /\ self.cable = "straight" /\ self.index = 0) => ret = 1
            /\ (raw = 240 /\ self.cable = "straight" /\ self.index = 4) => ret = 0
            /\ (raw = 240 /\ self.cable = "loopback" /\ self.index = 0) => ret = 0
            /\ (raw = 240 /\ self.cable = "loopback" /\ self.index = 4) => ret = 1
            /\ (raw = 4 /\ self.cable = "straight" /\ self.index = 2) => ret = 0

\* A straight read of pin 4 while the port holds 0xF0 has returned.
C1_Witness ==
    /\ ReadReturned
    /\ last.resp.value = 240
    /\ last.self.cable = "straight"
    /\ last.self.index = 4
    /\ last.out.ret = 0

\* The last event is a constructor call given a token the code does not know.
ConstructUnknownToken ==
    /\ last.name = "__init__"
    /\ last.cable \in CableTokens \ Cables

\* C2: constructing with a cable token that is neither 'straight' nor
\* 'loopback' raises ValueError whatever the index and the direction, makes no
\* object, changes nothing, and calls neither the base constructor nor the
\* controller.
C2_ConstructRejectsUnknownCable ==
    ConstructUnknownToken =>
        /\ last.out.exc = "ValueError"
        /\ last.out.calls = << >>
        /\ pin = last.self
        /\ pin = NoPin
        /\ port = 0
        /\ accepted = NoArg

\* An unknown token given together with an index and a direction that the
\* base constructor would reject.
C2_Witness ==
    /\ ConstructUnknownToken
    /\ last.index \notin 0..7
    /\ last.direction = "inout"
    /\ last.out.exc = "ValueError"

\* The last event is a set_cable call given a token the code does not know.
SetCableUnknownToken ==
    /\ last.name = "set_cable"
    /\ last.cable \in CableTokens \ Cables

\* C3: set_cable with a token that is neither 'straight' nor 'loopback' raises
\* ValueError and leaves the stored cable as it was, whichever it was; a read
\* after it maps as a read before it did.
C3_SetCableRejectsUnknownCable ==
    SetCableUnknownToken =>
        /\ last.out.exc = "ValueError"
        /\ last.self.cable \in Cables
        /\ pin.cable = last.self.cable
        /\ bit_position(pin) = bit_position(last.self)
        /\ \A resp \in Responses(port) :
               read(pin, resp) = read(last.self, resp)

\* A failed set_cable on a pin whose cable was 'loopback'.
C3_Witness ==
    /\ SetCableUnknownToken
    /\ last.self.cable = "loopback"
    /\ last.out.exc = "ValueError"

\* C4: in every reachable state, the cable of an existing pin is 'straight'
\* or 'loopback'.
C4_CableAlwaysKnown ==
    pin # NoPin => pin.cable \in {"straight", "loopback"}

\* A pin exists after a set_cable with an unknown token and a failed read.
C4_Witness ==
    /\ pin # NoPin
    /\ last.name = "read"
    /\ ~last.resp.ok
    /\ accepted = "loopback"
    /\ pin.cable = "loopback"

\* The last event is a constructor call given a known cable and arguments the
\* base constructor accepts.
ConstructKnownCable ==
    /\ last.name = "__init__"
    /\ last.cable \in Cables
    /\ last.index \in 0..7
    /\ PMOD_IO_init(last.pmod_id, last.index, last.direction).exc = "ok"

\* C5: for a cable in {straight, loopback} and an index in 0..7, the base
\* construction succeeding, the constructor raises nothing and the pin's cable
\* is exactly the one given; a read that follows does not raise ValueError.
C5_ConstructKnownCable ==
    /\ ConstructKnownCable =>
          /\ last.out.exc = "ok"
          /\ pin # NoPin
          /\ pin.cable = last.cable
          /\ pin.index = last.index
          /\ \A resp \in Responses(port) :
                 read(pin, resp).exc \notin {"ValueError", "TypeError"}
    /\ last.name = "read" => last.out.exc \notin {"ValueError", "TypeError"}

\* A loopback pin 7 has just been constructed.
C5_Witness ==
    /\ ConstructKnownCable
    /\ last.cable = "loopback"
    /\ last.index = 7
    /\ pin # NoPin
    /\ pin.cable = "loopback"

\* The last event is a set_cable call given a known token.
SetCableKnownToken ==
    /\ last.name = "set_cable"
    /\ last.cable \in Cables

\* C6: set_cable with a valid token c succeeds whatever the cable was and
\* stores c; from each cable state each of the two is one set_cable away, so
\* no state is terminal; and a read maps by the cable most recently accepted.
C6_SetCableAlwaysSucceeds ==
    /\ SetCableKnownToken =>
          /\ last.out.exc = "ok"
          /\ pin.cable = last.cable
    /\ pin # NoPin =>
          /\ accepted = pin.cable
          /\ \A c \in Cables :
                 /\ set_cable(pin, c).exc = "ok"
                 /\ set_cable(pin, c).self.cable = c
    /\ ReadReturned =>
          last.out.ret = SpecBit(port, SpecPosition(accepted, last.self.index))

\* A set_cable('loopback') on a straight pin succeeded.
C6_Witness ==
    /\ SetCableKnownToken
    /\ last.self.cable = "straight"
    /\ last.cable = "loopback"
    /\ pin.cable = "loopback"

\* A read maps by 'straight' after the cable went to 'loopback' and back.
C6_WitnessRead ==
    /\ ReadReturned
    /\ accepted = "straight"
    /\ last.self.index = 1
    /\ port = 32
    /\ last.out.ret = 1

\* The last event is a constructor call without the cable argument, the
\* other arguments being ones the base constructor accepts.
ConstructNoCable ==
    /\ last.name = "__init__"
    /\ last.cable = NoArg
    /\ PMOD_IO_init(last.pmod_id, last.index, last.direction).exc = "ok"

\* C7: the default cable type is 'straight': a pin constructed without a
\* cable argument exists and has cable = 'straight'.
C7_DefaultCableStraight ==
    ConstructNoCable =>
        /\ last.out.exc = "ok"
        /\ pin # NoPin
        /\ pin.cable = "straight"

\* C8: a read() calls the controller's read_cmd exactly once; when that call
\* fails, read() does not call again, returns nothing, raises the controller's
\* failure as it is, and leaves the pin as it was.
C8_ReadOneControllerCall ==
    last.name = "read" =>
        /\ last.out.calls = <<"read_cmd">>
        /\ ~last.resp.ok =>
              /\ last.out.exc = last.resp.error
              /\ "ret" \notin DOMAIN last.out
              /\ pin = last.self
              /\ \A resp \in Responses(port) :
                     read(pin, resp) = read(last.self, resp)
              /\ \A c \in CableTokens :
                     set_cable(pin, c) = set_cable(last.self, c)

\* A read in which the controller timed out.
C8_Witness ==
    /\ last.name = "read"
    /\ ~last.resp.ok
    /\ last.resp.error = "TimeoutError"
    /\ last.out.exc = "TimeoutError"

\* The straight-cable mapping of index i, as read() computes it.
straight(i) == bit_position([index |-> i, cable |-> "straight"])

\* What read() returns for index i and cable c when the port holds raw.
read_bit(i, c, raw) ==
    read([index |-> i, cable |-> c], [ok |-> TRUE, value |-> raw]).ret

\* C9: on 0..7 the straight mapping s stays in 0..7, is a permutation, swaps
\* the groups {0..3} and {4..7}, is its own inverse and equals i XOR 4; for
\* every raw value a straight read at i returns what a loopback read at s(i)
\* returns, and only the low 8 bits of the raw value matter.
C9_StraightMappingInvolution ==
    /\ pin # NoPin =>
          /\ \A i \in 0..7 :
                /\ straight(i) \in 0..7
                /\ straight(straight(i)) = i
                /\ straight(i) = BitXor(i, 4)
                /\ i \in 0..3 <=> straight(i) \in 4..7
          /\ {straight(i) : i \in 0..7} = 0..7
          /\ bit_position(pin) \in 0..7
    /\ ReadReturned =>
          /\ \A i \in 0..7 :
                /\ read_bit(i, "straight", port)
                       = read_bit(straight(i), "loopback", port)
                /\ read_bit(i, "straight", port)
                       = read_bit(i, "straight", port % 256)
                /\ read_bit(i, "loopback", port)
                       = read_bit(i, "loopback", port % 256)
          /\ last.out.ret = read_bit(last.self.index, last.self.cable,
                                     port % 256)
          /\ last.self.cable = "straight" =>
                last.out.ret = read_bit(BitXor(last.self.index, 4),
                                        "loopback", port)

\* A straight read of pin 6 returned bit 2 while bit 8 of the raw value is set.
C9_Witness ==
    /\ ReadReturned
    /\ last.self.cable = "straight"
    /\ last.self.index = 6
    /\ port = 256 + 4
    /\ last.out.ret = 1

\* C10: read() leaves cable, index, direction and the controller handle as
\* they were, also on an 'out' pin, which it does not reject; set_cable,
\* succeeding or failing, changes nothing but the cable and calls no
\* collaborator; so index and direction of a pin never change.
C10_FrameConditions ==
    /\ last.name = "read" =>
          /\ pin = last.self
          /\ (last.resp.ok /\ last.self.direction = "out") =>
                 last.out.exc = "ok"
    /\ last.name = "set_cable" =>
          /\ pin.iop = last.self.iop
          /\ pin.index = last.self.index
          /\ pin.direction = last.self.direction
          /\ DOMAIN pin = DOMAIN last.self
          /\ last.out.calls = << >>
    /\ last.name = "toggle" => pin = last.self
    /\ last.name = "__init__" => last.self = NoPin

\* A read on an 'out' pin returned a bit.
C10_Witness ==
    /\ ReadReturned
    /\ last.self.direction = "out"
    /\ last.out.exc = "ok"
    /\ pin = last.self

\* A set_cable changed the cable of an 'out' pin 5 and nothing else.
C10_WitnessSetCable ==
    /\ SetCableKnownToken
    /\ last.self.cable # last.cable
    /\ pin.index = 5
    /\ pin.direction = "out"
====
